---- MODULE Spec2Model ----
(***************************************************************************)
(* A model of the execution-environment abstraction of ennucore/clippy:    *)
(* the FileSystemTree snapshot and its path lookup, the TrunkLinter        *)
(* capability that shells out to external tools, the Environment facade    *)
(* that delegates to the five held capabilities, and the trimString        *)
(* utility.  Strings are modelled as sequences of one-character strings    *)
(* so that trim, includes and slice are computed, not assumed.             *)
(*                                                                         *)
(* Optional values (undefined, null) are modelled as sequences of length   *)
(* zero or one: Undefined = Null = << >>, and a present value v is <<v>>.  *)
(***************************************************************************)
EXTENDS Integers, Sequences, FiniteSets

VARIABLES
    nodes,      \* the heap of FileSystemTree objects, in construction order
    lastGet,    \* the last getByPath call: receiver, argument, returned node
    linter,     \* the object the last `new TrunkLinter(..)` gave, << >> if none
    ctor,       \* how the last `new TrunkLinter(..)` ended
    lintCall,   \* the last getOutput / lintFile call and its settled promise
    console,    \* the lines the last TrunkLinter operation wrote with console.log
    pc,         \* the caller of the Environment: "idle" or "awaiting"
    ncalls,     \* the number of Environment calls issued so far
    envCall,    \* the Environment call in flight, or the last one made
    capLog,     \* the capability invocations made by that Environment call
    capOutcome, \* the outcome of the capability operation it started
    envOutcome, \* the outcome of the Environment call's own promise
    running,    \* capability operations started and not yet settled
    trimCall    \* the last trimString call: text, threshold, result

treeVars == <<nodes, lastGet>>
lintVars == <<linter, ctor, lintCall, console>>
envVars  == <<pc, ncalls, envCall, capLog, capOutcome, envOutcome, running>>
trimVars == <<trimCall>>
vars == <<nodes, lastGet, linter, ctor, lintCall, console, pc, ncalls, envCall,
          capLog, capOutcome, envOutcome, running, trimCall>>

----------------------------------------------------------------------------
(* Optional values.                                                        *)

Undefined == << >>
Null == << >>
Some(v) == <<v>>
IsSome(o) == Len(o) = 1
Get(o) == o[1]

----------------------------------------------------------------------------
(* Bounds of the model.                                                    *)

MaxNodes == 3
MaxTextLen == 3
MaxCalls == 2
MaxTrimLen == 7
MaxThreshold == 6

----------------------------------------------------------------------------
(* FileSystemTree                                                          *)

Paths == {"/", "/a"}
Lines == <<"line">>

\* Node references are indices into the heap; 0 is the null reference.
NullRef == 0
NodeIds == 1..Len(nodes)

HasParent(h, n) ==
    \E m \in 1..Len(h) :
        IsSome(h[m].children) /\ \E i \in 1..Len(Get(h[m].children)) : Get(h[m].children)[i] = n

\* The arrays of children a caller can pass without sharing a node between
\* two parents (a strict tree): sequences of distinct nodes that have no
\* parent yet.
ChildArrays(h) ==
    LET free == {n \in 1..Len(h) : ~HasParent(h, n)}
    IN {s \in UNION {[1..k -> free] : k \in 0..Cardinality(free)} :
            \A i, j \in DOMAIN s : i # j => s[i] # s[j]}

\* Constructor arguments (isDirectory, content, children) of a directory or
\* of a file as the data model describes them.
DirectoryArgs(h) == {<<TRUE, Null, Some(s)>> : s \in ChildArrays(h)}
FileArgs == {<<FALSE, Some(Lines), Undefined>>}
\* Every combination the constructor's signature accepts.
AnyArgs(h) ==
    BOOLEAN \X {Null, Some(Lines)} \X ({Undefined} \cup {Some(s) : s \in ChildArrays(h)})

FileSystemTree(path, isDirectory, content, children) ==
    [path |-> path, isDirectory |-> isDirectory, content |-> content, children |-> children]

RECURSIVE getByPath(_, _, _)
RECURSIVE getByPathLoop(_, _, _, _)

\* A lookup that searches the children before looking at the node itself.
getByPathChildrenFirst(h, this, path) ==
    LET below == IF IsSome(h[this].children)
                 THEN getByPathLoop(h, Get(h[this].children), 1, path)
                 ELSE NullRef
    IN IF below # NullRef THEN below
       ELSE IF h[this].path = path THEN this
       ELSE NullRef

getByPath(h, this, path) ==
    IF h[this].path = path THEN this
    ELSE IF IsSome(h[this].children) THEN getByPathLoop(h, Get(h[this].children), 1, path)
    ELSE NullRef

\* The for-of loop over this.children, from its i-th element on.
getByPathLoop(h, children, i, path) ==
    IF i > Len(children) THEN NullRef
    ELSE LET result == getByPath(h, children[i], path)
         IN IF result # NullRef THEN result
            ELSE getByPathLoop(h, children, i + 1, path)

NoGet == [this |-> NullRef, path |-> "", result |-> NullRef]

New(path, isDirectory, content, children) ==
    /\ Len(nodes) < MaxNodes
    /\ nodes' = Append(nodes, FileSystemTree(path, isDirectory, content, children))
    /\ lastGet' = NoGet
    /\ UNCHANGED <<lintVars, envVars, trimVars>>

GetByPath(this, path) ==
    /\ lastGet' = [this |-> this, path |-> path, result |-> getByPath(nodes, this, path)]
    /\ UNCHANGED <<nodes, lintVars, envVars, trimVars>>

\* Snapshots built as the data model describes them.
TreeNext ==
    \/ \E path \in Paths : \E a \in DirectoryArgs(nodes) \cup FileArgs :
          New(path, a[1], a[2], a[3])
    \/ \E this \in NodeIds, path \in Paths : GetByPath(this, path)

\* Snapshots built from every combination of constructor arguments.
TreeAnyNext ==
    \/ \E path \in Paths : \E a \in AnyArgs(nodes) : New(path, a[1], a[2], a[3])
    \/ \E this \in NodeIds, path \in Paths : GetByPath(this, path)

(* Pre-order traversal, stated independently of the lookup. *)
RECURSIVE PreOrder(_, _)
RECURSIVE PreOrderAll(_, _, _)
PreOrder(h, n) ==
    <<n>> \o (IF IsSome(h[n].children) THEN PreOrderAll(h, Get(h[n].children), 1) ELSE << >>)

PreOrderAll(h, cs, i) ==
    IF i > Len(cs) THEN << >> ELSE PreOrder(h, cs[i]) \o PreOrderAll(h, cs, i + 1)

IsFirstMatch(h, order, p, r) ==
    IF \E k \in 1..Len(order) : h[order[k]].path = p
    THEN \E k \in 1..Len(order) :
            /\ order[k] = r
            /\ h[r].path = p
            /\ \A j \in 1..(k - 1) : h[order[j]].path # p
    ELSE r = NullRef

\* C1: getByPath(p) returns the first node of the pre-order traversal (a node
\* before its children, children in stored order) whose path equals p, and
\* null when no node has path p; a repeated call with the same p on the same
\* tree returns the same node, and no call modifies the tree.
C1_GetByPathFirstInPreOrder ==
    /\ [](lastGet.this # NullRef =>
            IsFirstMatch(nodes, PreOrder(nodes, lastGet.this), lastGet.path, lastGet.result))
    /\ [][lastGet'.this # NullRef =>
            /\ nodes' = nodes
            /\ (lastGet'.this = lastGet.this /\ lastGet'.path = lastGet.path
                    => lastGet'.result = lastGet.result)]_vars

\* A lookup that skipped a root that does not match, skipped its first child
\* and returned its second child.
C1_Witness ==
    /\ lastGet.this # NullRef
    /\ lastGet.result # NullRef
    /\ lastGet.result # lastGet.this
    /\ IsSome(nodes[lastGet.this].children)
    /\ Len(Get(nodes[lastGet.this].children)) = 2
    /\ Get(nodes[lastGet.this].children)[2] = lastGet.result
    /\ nodes[Get(nodes[lastGet.this].children)[1]].path # lastGet.path

IsDirectoryNode(n) == n.isDirectory /\ IsSome(n.children) /\ ~IsSome(n.content)
IsFileNode(n) == ~n.isDirectory /\ IsSome(n.content) /\ ~IsSome(n.children)

\* C9: every FileSystemTree node the constructor can produce is either a
\* directory (children defined, content null) or a file (content non-null,
\* children undefined), never both or neither.
C9_NodeIsDirectoryOrFile ==
    \A n \in NodeIds : IF nodes[n].isDirectory THEN IsDirectoryNode(nodes[n])
                                               ELSE IsFileNode(nodes[n])

----------------------------------------------------------------------------
(* Strings: sequences of one-character strings.                            *)

WhiteSpace == {" ", "\t", "\n", "\r"}

RECURSIVE trimStart(_)
trimStart(s) ==
    IF s # << >> /\ Head(s) \in WhiteSpace THEN trimStart(Tail(s)) ELSE s

RECURSIVE trimEnd(_)
trimEnd(s) ==
    IF s # << >> /\ s[Len(s)] \in WhiteSpace THEN trimEnd(SubSeq(s, 1, Len(s) - 1)) ELSE s

\* String.prototype.trim
trim(s) == trimEnd(trimStart(s))

startsWithAt(s, search, i) ==
    /\ i + Len(search) - 1 <= Len(s)
    /\ \A k \in 1..Len(search) : s[i + k - 1] = search[k]

RECURSIVE includesFrom(_, _, _)
includesFrom(s, search, i) ==
    IF i + Len(search) - 1 > Len(s) THEN FALSE
    ELSE IF startsWithAt(s, search, i) THEN TRUE
    ELSE includesFrom(s, search, i + 1)

\* String.prototype.includes
includes(s, search) == includesFrom(s, search, 1)

----------------------------------------------------------------------------
(* TrunkLinter                                                             *)

PleaseRun == <<"P", "l", "e", "a", "s", "e", " ", "r", "u", "n", " ">>
TrunkCanOnly == <<"T", "r", "u", "n", "k", " ", "c", "a", "n", " ", "o", "n", "l", "y">>
RunningTheLinter == <<"Running the linter...">>

\* Texts an external tool can print.
TrunkUpgrade == <<"t", "r", "u", "n", "k", " ", "u", "p", "g", "r", "a", "d", "e">>
PleaseRunTrunkUpgrade == PleaseRun \o TrunkUpgrade
ToolMessages ==
    { PleaseRun, TrunkCanOnly, PleaseRunTrunkUpgrade,
      SubSeq(PleaseRun, 1, Len(PleaseRun) - 1),
      <<"p">> \o Tail(PleaseRun),
      SubSeq(TrunkCanOnly, 1, Len(TrunkCanOnly) - 1),
      <<"t">> \o Tail(TrunkCanOnly) }
Around == {<< >>, <<"F">>}
Alphabet == {" ", "\n", "F"}
ShortTexts == UNION {[1..k -> Alphabet] : k \in 0..MaxTextLen}
Texts == ShortTexts \cup {a \o m \o b : a \in Around, m \in ToolMessages, b \in Around}

RepoPaths == {"/repo", "/missing"}
FilePaths == {"a.py", "b.py"}

\* What child_process.execSync can do: return the captured stdout; throw an
\* error carrying the captured stdout (non-zero exit status, or the timeout
\* expiring when a timeout is given); or throw an error whose stdout is null
\* because the process could not be started (the working directory does not
\* exist, for one).
execSync(hasTimeout) ==
    {[status |-> st, stdout |-> Some(t)] :
        st \in {"ok", "exit"} \cup (IF hasTimeout THEN {"timeout"} ELSE {}), t \in Texts}
    \cup {[status |-> "spawn", stdout |-> Null]}

Resolved(v) == [kind |-> "resolved", value |-> v]
Rejected(e) == [kind |-> "rejected", error |-> e]

\* try { res = execSync(..).toString() } catch (e) { res = e.stdout.toString() }
\* e.stdout.toString() throws a TypeError when e.stdout is null.
CapturedOrThrow(o) == IF IsSome(o.stdout) THEN Resolved(Get(o.stdout)) ELSE Rejected("TypeError")

NoCtor == [status |-> "none", repo_path |-> ""]

NewTrunkLinter(repo_path, o) ==
    /\ IF o.status = "ok"
       THEN /\ linter' = Some([repo_path |-> repo_path])
            /\ ctor' = [status |-> "returned", repo_path |-> repo_path]
            /\ console' = << >>
       ELSE IF IsSome(o.stdout)
       THEN /\ console' = <<Get(o.stdout)>>
            /\ linter' = Some([repo_path |-> repo_path])
            /\ ctor' = [status |-> "returned", repo_path |-> repo_path]
       ELSE /\ ctor' = [status |-> "threw", repo_path |-> repo_path]
            /\ linter' = Null
            /\ console' = << >>
    /\ lintCall' = << >>
    /\ UNCHANGED <<treeVars, envVars, trimVars>>

\* A result that looks for the first sentinel only.
getOutputResultFirstOnly(res) ==
    IF includes(res, PleaseRun) THEN << >> ELSE res

getOutputResult(res) ==
    IF includes(res, PleaseRun) \/ includes(res, TrunkCanOnly) THEN << >> ELSE res

GetOutput(o) ==
    /\ IsSome(linter)
    /\ LET res == CapturedOrThrow(o)
       IN IF res.kind = "resolved"
          THEN /\ console' = <<RunningTheLinter, res.value>>
               /\ lintCall' = [op |-> "getOutput", path |-> "", exec |-> o,
                               promise |-> Resolved(getOutputResult(res.value))]
          ELSE /\ console' = <<RunningTheLinter>>
               /\ lintCall' = [op |-> "getOutput", path |-> "", exec |-> o, promise |-> res]
    /\ UNCHANGED <<linter, ctor, treeVars, envVars, trimVars>>

\* A result whose is_ok looks at the untrimmed text.
lintFileResultUntrimmed(res) ==
    [output |-> trim(res), is_ok |-> res = << >>]

lintFileResult(res) ==
    [output |-> trim(res), is_ok |-> trim(res) = << >>]

LintFile(path, o) ==
    /\ IsSome(linter)
    /\ LET res == CapturedOrThrow(o)
       IN lintCall' = [op |-> "lintFile", path |-> path, exec |-> o,
                       promise |-> IF res.kind = "resolved"
                                   THEN Resolved(lintFileResult(res.value))
                                   ELSE res]
    /\ console' = << >>
    /\ UNCHANGED <<linter, ctor, treeVars, envVars, trimVars>>

LintNext ==
    \/ \E repo_path \in RepoPaths, o \in execSync(FALSE) : NewTrunkLinter(repo_path, o)
    \/ \E o \in execSync(TRUE) : GetOutput(o)
    \/ \E path \in FilePaths, o \in execSync(FALSE) : LintFile(path, o)

Called(op) == lintCall # << >> /\ lintCall.op = op
ToolPrinted == IsSome(lintCall.exec.stdout)
ToolText == Get(lintCall.exec.stdout)

AllWhiteSpace(t) == \A k \in 1..Len(t) : t[k] \in WhiteSpace

\* out is t without its leading and trailing whitespace
IsTrimOf(out, t) ==
    \E i, j \in 0..Len(t) :
        /\ i + j <= Len(t)
        /\ out = SubSeq(t, i + 1, Len(t) - j)
        /\ \A k \in 1..i : t[k] \in WhiteSpace
        /\ \A k \in (Len(t) - j + 1)..Len(t) : t[k] \in WhiteSpace
        /\ out # << >> => out[1] \notin WhiteSpace /\ out[Len(out)] \notin WhiteSpace

\* C2: for every text the scoped lint tool prints, whether its process
\* succeeded or failed, lintFile resolves with output equal to the text
\* without its leading and trailing whitespace, and is_ok is true exactly
\* when that output is empty: whitespace-only text gives output "" and is_ok
\* true, any non-blank text gives is_ok false.
C2_LintFileTrimmedOutput ==
    (Called("lintFile") /\ ToolPrinted) =>
        /\ lintCall.promise.kind = "resolved"
        /\ IsTrimOf(lintCall.promise.value.output, ToolText)
        /\ lintCall.promise.value.is_ok <=> (lintCall.promise.value.output = << >>)
        /\ AllWhiteSpace(ToolText) =>
              lintCall.promise.value = [output |-> << >>, is_ok |-> TRUE]
        /\ ~AllWhiteSpace(ToolText) => ~lintCall.promise.value.is_ok

\* The failed tool printed a finding between whitespace, and the tool
\* printed whitespace only.
C2_Witness ==
    /\ Called("lintFile")
    /\ lintCall.exec.status = "exit"
    /\ ToolPrinted
    /\ ToolText = <<" ", "F", "\n">>
    /\ lintCall.promise = Resolved([output |-> <<"F">>, is_ok |-> FALSE])

Contains(t, s) == \E i \in 1..(Len(t) - Len(s) + 1) : SubSeq(t, i, i + Len(s) - 1) = s

\* C3: getOutput returns the empty string whenever the text obtained from the
\* tool (a successful run's output or a failed run's captured output)
\* contains 'Please run ' or 'Trunk can only', and otherwise returns the text
\* unchanged; the text "Please run trunk upgrade" yields "".
C3_GetOutputSentinels ==
    (Called("getOutput") /\ ToolPrinted) =>
        /\ lintCall.promise.kind = "resolved"
        /\ lintCall.promise.value =
              IF Contains(ToolText, PleaseRun) \/ Contains(ToolText, TrunkCanOnly)
              THEN << >> ELSE ToolText
        /\ ToolText = PleaseRunTrunkUpgrade => lintCall.promise.value = << >>

\* The tool printed exactly "Please run trunk upgrade" and getOutput gave "".
C3_Witness ==
    /\ Called("getOutput")
    /\ ToolPrinted
    /\ ToolText = PleaseRunTrunkUpgrade
    /\ lintCall.promise = Resolved(<< >>)

\* C4: however the external process fails (non-zero exit, timeout, or failing
\* to start so that no output was captured), getOutput and lintFile resolve
\* with a normal result; neither rejects.
C4_LinterCallsNeverReject ==
    lintCall # << >> => lintCall.promise.kind = "resolved"

\* C5: constructing a TrunkLinter never propagates a failure of the init
\* command: the constructor completes normally with repo_path set to the
\* given path.
C5_ConstructorNeverThrows ==
    ctor.status # "none" =>
        /\ ctor.status = "returned"
        /\ IsSome(linter)
        /\ Get(linter).repo_path = ctor.repo_path

----------------------------------------------------------------------------
(* Environment                                                             *)

\* The Environment object; it is what `this` denotes in its methods.
Self == "environment"

Pending == [kind |-> "pending"]
Thrown(e) == [kind |-> "thrown", error |-> e]
NoCall == [method |-> "", args |-> << >>]

Invocation(cap, method, args) == [cap |-> cap, method |-> method, args |-> args]

\* How a method uses the promise its capability call returns.
\*   "return"      return cap.m(..)          \* the promise is adopted
\*   "returnAwait" return await cap.m(..)
\*   "await"       await cap.m(..)           \* the value is dropped
\*   "call"        cap.m(..)                 \* the promise is dropped
Method(invocation, use) == [invocation |-> invocation, use |-> use]

EnvironmentMethods ==
    {"getFileSystem", "getBrowserState", "getTerminalState", "writeFile", "deleteFile",
     "readFile", "pathExists", "runCommand", "openUrl", "showMessage", "askPrompt",
     "getNewMessages", "getLinterOutput", "lintFile"}

Environment_getFileSystem(args) ==
    Method(Invocation("fileSystem", "getFileSystem", << >>), "return")
Environment_getBrowserState(args) ==
    Method(Invocation("browser", "getBrowserState", << >>), "return")
Environment_getTerminalState(args) ==
    Method(Invocation("terminal", "getTerminalState", << >>), "return")
Environment_writeFile(args) ==
    Method(Invocation("fileSystem", "writeFile", <<Self, args[1], args[2]>>), "returnAwait")

\* deleteFile written without its await.
Environment_deleteFileNotAwaited(args) ==
    Method(Invocation("fileSystem", "deleteFile", <<Self, args[1]>>), "call")

Environment_deleteFile(args) ==
    Method(Invocation("fileSystem", "deleteFile", <<Self, args[1]>>), "await")
Environment_readFile(args) ==
    Method(Invocation("fileSystem", "readFile", <<Self, args[1]>>), "returnAwait")
Environment_pathExists(args) ==
    Method(Invocation("fileSystem", "exists", <<args[1]>>), "returnAwait")
Environment_runCommand(args) ==
    Method(Invocation("terminal", "runCommand", <<args[1], args[2], args[3], args[4]>>), "return")
Environment_openUrl(args) ==
    Method(Invocation("browser", "openUrl", <<args[1], args[2]>>), "return")
Environment_showMessage(args) ==
    Method(Invocation("user_interface", "showMessage", <<args[1]>>), "call")
Environment_askPrompt(args) ==
    Method(Invocation("user_interface", "askPrompt", <<args[1]>>), "return")
Environment_getNewMessages(args) ==
    Method(Invocation("user_interface", "getNewMessages", << >>), "return")
Environment_getLinterOutput(args) ==
    Method(Invocation("linter", "getOutput", << >>), "returnAwait")
Environment_lintFile(args) ==
    Method(Invocation("linter", "lintFile", <<args[1]>>), "returnAwait")

\* The body of the Environment method named m.
Environment(m, args) ==
    CASE m = "getFileSystem" -> Environment_getFileSystem(args)
      [] m = "getBrowserState" -> Environment_getBrowserState(args)
      [] m = "getTerminalState" -> Environment_getTerminalState(args)
      [] m = "writeFile" -> Environment_writeFile(args)
      [] m = "deleteFile" -> Environment_deleteFile(args)
      [] m = "readFile" -> Environment_readFile(args)
      [] m = "pathExists" -> Environment_pathExists(args)
      [] m = "runCommand" -> Environment_runCommand(args)
      [] m = "openUrl" -> Environment_openUrl(args)
      [] m = "showMessage" -> Environment_showMessage(args)
      [] m = "askPrompt" -> Environment_askPrompt(args)
      [] m = "getNewMessages" -> Environment_getNewMessages(args)
      [] m = "getLinterOutput" -> Environment_getLinterOutput(args)
      [] m = "lintFile" -> Environment_lintFile(args)

\* Arguments a caller passes.  A tab index is written as a string: "1" is
\* the number 1 and "new" the sentinel.
Strings == {"s1", "s2"}
TabIndexes == {Undefined, Some("1"), Some("new")}
Arguments(m) ==
    CASE m \in {"getFileSystem", "getBrowserState", "getTerminalState", "getNewMessages",
                "getLinterOutput"} -> {<< >>}
      [] m = "writeFile" -> {<<path, content>> : path \in FilePaths, content \in Strings}
      [] m \in {"deleteFile", "readFile", "pathExists", "lintFile"} -> {<<path>> : path \in FilePaths}
      [] m = "runCommand" ->
            {<<"ls", tabIndex, timeout, isHardTimeout>> :
                tabIndex \in TabIndexes, timeout \in {Undefined, Some(5000)},
                isHardTimeout \in {Undefined, Some(TRUE)}}
      [] m = "openUrl" -> {<<"http://u", tabIndex>> : tabIndex \in {Undefined, Some("1")}}
      [] m \in {"showMessage", "askPrompt"} -> {<<text>> : text \in Strings}

\* The values a capability method's promise can resolve with, by its
\* declared type, and the failures it can reject with or throw.
VoidValue == "undefined"
Values(capMethod) ==
    CASE capMethod \in {"writeFile", "deleteFile", "showMessage"} -> {VoidValue}
      [] capMethod = "exists" -> {"true", "false"}
      [] capMethod = "lintFile" -> {"{output: '', is_ok: true}", "{output: 'F821', is_ok: false}"}
      [] OTHER -> {"v1", "v2"}
Failures == {"EIO", "EACCES"}
Settlements(capMethod) ==
    {Resolved(v) : v \in Values(capMethod)} \cup {Rejected(e) : e \in Failures}

\* The outcome of the async method, from how it uses the capability's promise.
EnvironmentOutcome(use, capability) ==
    IF capability.kind = "thrown" THEN Rejected(capability.error)
    ELSE CASE use \in {"return", "returnAwait"} -> capability
           [] use = "await" ->
                 IF capability.kind = "resolved" THEN Resolved(VoidValue) ELSE capability
           [] use = "call" -> Resolved(VoidValue)

\* The caller calls an Environment method: its body runs up to the capability
\* call, which either throws or starts an operation and returns its promise.
EnvCall(m, args, start) ==
    /\ pc = "idle"
    /\ ncalls < MaxCalls
    /\ ncalls' = ncalls + 1
    /\ envCall' = [method |-> m, args |-> args]
    /\ capLog' = <<Environment(m, args).invocation>>
    /\ envOutcome' = Pending
    /\ pc' = "awaiting"
    /\ IF start = "returns"
       THEN /\ capOutcome' = Pending
            /\ running' = running \cup {[id |-> ncalls', method |-> Environment(m, args).invocation.method]}
       ELSE /\ capOutcome' = Thrown(start)
            /\ UNCHANGED running
    /\ UNCHANGED <<treeVars, lintVars, trimVars>>

\* A capability operation completes and settles its promise.
CapSettle(op, settlement) ==
    /\ op \in running
    /\ running' = running \ {op}
    /\ capOutcome' = IF op.id = ncalls THEN settlement ELSE capOutcome
    /\ UNCHANGED <<pc, ncalls, envCall, capLog, envOutcome, treeVars, lintVars, trimVars>>

\* The Environment method's promise settles and the awaiting caller resumes.
EnvSettle ==
    /\ pc = "awaiting"
    /\ LET use == Environment(envCall.method, envCall.args).use
       IN /\ use # "call" => capOutcome.kind # "pending"
          /\ envOutcome' = EnvironmentOutcome(use, capOutcome)
    /\ pc' = "idle"
    /\ UNCHANGED <<ncalls, envCall, capLog, capOutcome, running, treeVars, lintVars, trimVars>>

EnvNext ==
    \/ \E m \in EnvironmentMethods : \E args \in Arguments(m), start \in {"returns"} \cup Failures :
          EnvCall(m, args, start)
    \/ \E op \in running : \E settlement \in Settlements(op.method) : CapSettle(op, settlement)
    \/ EnvSettle

\* The Environment call ended as the capability call did.
SameOutcome ==
    /\ capOutcome.kind = "resolved" => envOutcome = Resolved(capOutcome.value)
    /\ capOutcome.kind \in {"rejected", "thrown"} => envOutcome = Rejected(capOutcome.error)

FileSystemMethods == {"writeFile", "deleteFile", "readFile", "pathExists"}

\* C6: writeFile, deleteFile, readFile and pathExists each make exactly one
\* call to the same-named operation of the held FileSystem (exists for
\* pathExists) with the same path and content, passing the Environment itself
\* as env for the first three; the Environment call succeeds with the same
\* value when the FileSystem call succeeds and fails with the same failure
\* when it fails.
C6_FileSystemDelegation ==
    envCall.method \in FileSystemMethods =>
        /\ capLog = << [cap |-> "fileSystem",
                        method |-> IF envCall.method = "pathExists" THEN "exists"
                                   ELSE envCall.method,
                        args |-> IF envCall.method = "pathExists" THEN envCall.args
                                 ELSE <<Self>> \o envCall.args] >>
        /\ pc = "idle" => capOutcome.kind # "pending" /\ SameOutcome

\* writeFile was called and the FileSystem's writeFile failed.
C6_Witness ==
    /\ pc = "idle"
    /\ envCall = [method |-> "writeFile", args |-> <<"a.py", "s2">>]
    /\ capLog = <<Invocation("fileSystem", "writeFile", <<Self, "a.py", "s2">>)>>
    /\ capOutcome = Rejected("EACCES")
    /\ envOutcome = Rejected("EACCES")

CapabilityOf(m) ==
    CASE m = "getFileSystem" -> "fileSystem"
      [] m \in {"getBrowserState", "openUrl"} -> "browser"
      [] m \in {"getTerminalState", "runCommand"} -> "terminal"
      [] m \in {"showMessage", "askPrompt", "getNewMessages"} -> "user_interface"
      [] m \in {"getLinterOutput", "lintFile"} -> "linter"

\* C7: every non-filesystem Environment method calls the corresponding method
\* of the corresponding capability exactly once with the same arguments and
\* no other capability, and its outcome is that call's outcome: a success
\* with the same value or a failure with the same failure.
C7_PureDelegation ==
    (envCall.method \in EnvironmentMethods \ FileSystemMethods) =>
        /\ capLog = << [cap |-> CapabilityOf(envCall.method),
                        method |-> IF envCall.method = "getLinterOutput" THEN "getOutput"
                                   ELSE envCall.method,
                        args |-> envCall.args] >>
        /\ (pc = "idle" /\ capOutcome.kind # "pending") => SameOutcome

\* C8: when the caller awaits each Environment call before issuing the next,
\* the capability operation a call started has completed before the call is
\* reported complete, and so before the next call's operation begins.
C8_EffectsInCallOrder ==
    /\ pc = "idle" => running = {}
    /\ Cardinality(running) <= 1

----------------------------------------------------------------------------
(* trimString                                                              *)

Max(a, b) == IF a > b THEN a ELSE b
Min(a, b) == IF a < b THEN a ELSE b

\* String.prototype.slice(start, end): a negative index counts from the end,
\* both indices are clamped to the string, and the result is empty when the
\* start is not before the end.
slice(s, start, end) ==
    LET from == IF start < 0 THEN Max(Len(s) + start, 0) ELSE Min(start, Len(s))
        to == IF end < 0 THEN Max(Len(s) + end, 0) ELSE Min(end, Len(s))
    IN IF from >= to THEN << >> ELSE SubSeq(s, from + 1, to)

\* slice(start), the end left out
sliceFrom(s, start) == slice(s, start, Len(s))

Dots == <<".", ".", ".">>

\* Math.floor(threshold / 2) of a non-negative integer
floorHalf(threshold) == threshold \div 2

trimString(text, threshold) ==
    IF Len(text) <= threshold THEN text
    ELSE LET start == slice(text, 0, floorHalf(threshold) - 2)
             end == sliceFrom(text, Len(text) - floorHalf(threshold) + 2)
         IN start \o Dots \o end

TrimTexts == UNION {[1..k -> {"a", "b"}] : k \in 0..MaxTrimLen}

TrimString(text, threshold) ==
    /\ trimCall' = [text |-> text, threshold |-> threshold, result |-> trimString(text, threshold)]
    /\ UNCHANGED <<treeVars, lintVars, envVars>>

TrimNext == \E text \in TrimTexts, threshold \in 0..MaxThreshold : TrimString(text, threshold)

\* C10: trimString(text, threshold) returns text unchanged when text.length
\* <= threshold, and otherwise a string of length exactly threshold made of
\* a prefix of text, then "...", then a suffix of text.
C10_TrimStringLength ==
    trimCall # << >> =>
        IF Len(trimCall.text) <= trimCall.threshold
        THEN trimCall.result = trimCall.text
        ELSE /\ Len(trimCall.result) = trimCall.threshold
             /\ \E i, j \in 0..Len(trimCall.text) :
                    trimCall.result =
                        SubSeq(trimCall.text, 1, i) \o Dots
                            \o SubSeq(trimCall.text, Len(trimCall.text) - j + 1, Len(trimCall.text))

----------------------------------------------------------------------------
Init ==
    /\ nodes = << >>
    /\ lastGet = NoGet
    /\ linter = Null
    /\ ctor = NoCtor
    /\ lintCall = << >>
    /\ console = << >>
    /\ pc = "idle"
    /\ ncalls = 0
    /\ envCall = NoCall
    /\ capLog = << >>
    /\ capOutcome = Pending
    /\ envOutcome = Pending
    /\ running = {}
    /\ trimCall = << >>

SpecTree == Init /\ [][TreeNext]_vars
SpecTreeAny == Init /\ [][TreeAnyNext]_vars
SpecLint == Init /\ [][LintNext]_vars
SpecEnv == Init /\ [][EnvNext]_vars
SpecTrim == Init /\ [][TrimNext]_vars
====
